---- MODULE Spec2Model ----
(***************************************************************************)
(* German A1 mock test: the session orchestrator (App), its one-ahead      *)
(* preloading, the stage components, the retry wrapper runWithRetry around *)
(* every remote call, and the listening fetch with its audio assembly.     *)
(***************************************************************************)
EXTENDS Integers, Sequences, FiniteSets, TLC

VARIABLES
    state,          \* App: useState<AppState>
    scores,         \* App: useState({reading, listening, writing, speaking})
    userDetails,    \* App: useState({name, phone, language})
    isSubmitting,   \* App: useState(false)
    formError,      \* App: useState<string|null>
    preloaded,      \* App: preloadedReading/Listening/Writing/Speaking
    bg,             \* background fetches started by the preloading effect, per slot
    submitPending,  \* handleFormSubmit suspended at `await submitTestResults`
    mod,            \* the stage component mounted by renderContent (or NoModule)
    rw,             \* one runWithRetry call: its frame (pc, i, lastError, ...)
    obs,            \* observation of that call: invocations, delays, outcomes
    spent,          \* observation: slots whose present content a stage instance has taken
    lastOp,         \* observation: the navigation handler that ran last, or "step"
    run,            \* observation: scores reported since the last Start click
    lt,             \* one listening fetch from its synthesis calls on (initTest)
    pl,             \* one Listening stage instance: its audio context, buffer and sources
    sc,             \* one pass through the four stages: answers, evaluation, score board, record
    fan,            \* one listening fetch as remote calls: the script call and one synthesis call per part
    stale           \* observation: fetches in flight started before the last restart

vars == <<state, scores, userDetails, isSubmitting, formError, preloaded, bg,
          submitPending, mod, rw, obs, spent, lastOp, run, lt, pl, sc, fan, stale>>

appVars == <<state, scores, userDetails, isSubmitting, formError, preloaded, bg,
             submitPending, mod, spent, lastOp, run, lt, pl, sc, fan, stale>>

rwVars == <<rw, obs>>

(***************************************************************************)
(* Bounds                                                                  *)
(***************************************************************************)
MaxRetries == 4
MaxInflight == 2
MaxParts == 3
\* sources one Listening instance starts, and toggleAudio calls waiting for resume()
MaxSources == 3
MaxResuming == 2
\* questions of one Reading or Listening content
MaxQuestions == 2

(***************************************************************************)
(* Text: a string is a sequence of one-character strings.                  *)
(***************************************************************************)
Null == "null"

Upper == <<"A","B","C","D","E","F","G","H","I","J","K","L","M",
          "N","O","P","Q","R","S","T","U","V","W","X","Y","Z">>
Lower == <<"a","b","c","d","e","f","g","h","i","j","k","l","m",
          "n","o","p","q","r","s","t","u","v","w","x","y","z">>

UpperToLower ==
    [c \in {Upper[k] : k \in 1..26} |-> Lower[CHOOSE k \in 1..26 : Upper[k] = c]]

toLowerCase(s) ==
    [k \in 1..Len(s) |-> IF s[k] \in DOMAIN UpperToLower THEN UpperToLower[s[k]] ELSE s[k]]

includes(s, sub) ==
    \E k \in 1..(Len(s) - Len(sub) + 1) : SubSeq(s, k, k + Len(sub) - 1) = sub

RECURSIVE SeqsUpTo(_, _)
\* the sequences over S of length at most n
SeqsUpTo(S, n) ==
    IF n = 0 THEN {<<>>}
    ELSE SeqsUpTo(S, n - 1) \cup {Append(q, x) : q \in SeqsUpTo(S, n - 1), x \in S}

(***************************************************************************)
(* runWithRetry                                                            *)
(***************************************************************************)
DefaultRetries == 3
DefaultBaseDelay == 1500

K503 == <<"5","0","3">>
KOverloaded == <<"o","v","e","r","l","o","a","d","e","d">>
KUnavailable == <<"u","n","a","v","a","i","l","a","b","l","e">>
KQuota == <<"q","u","o","t","a">>
K429 == <<"4","2","9">>

\* the errors the wrapped operation may reject with: message and JSON.stringify(error)
EmptyJson == <<"{","}">>
Errors == {
    [message |-> <<"5","0","3">>, json |-> EmptyJson],
    [message |-> <<"O","v","e","r","l","o","a","d","e","d">>, json |-> EmptyJson],
    [message |-> <<"U","N","A","V","A","I","L","A","B","L","E">>, json |-> EmptyJson],
    [message |-> <<"Q","u","o","t","a"," ","h","i","t">>, json |-> EmptyJson],
    [message |-> <<"E"," ","4","2","9">>, json |-> EmptyJson],
    [message |-> <<"5","0","0">>, json |-> EmptyJson],
    [message |-> <<"4","2"," ","9">>, json |-> EmptyJson],
    [message |-> <<"N","o"," ","t","e","x","t">>, json |-> EmptyJson],
    [message |-> <<>>, json |-> EmptyJson],
    [message |-> <<>>, json |-> <<"{","5","0","3","}">>] }

Values == {"A", "B"}

\* baseDelay arguments tried besides the default
BaseDelays == {DefaultBaseDelay, 1000}

\* errorMsg = (error.message || JSON.stringify(error)).toLowerCase()
errorMsgOfNoLower(error) == IF error.message # <<>> THEN error.message ELSE error.json
errorMsgOf(error) ==
    toLowerCase(IF error.message # <<>> THEN error.message ELSE error.json)

isTransientOf(errorMsg) ==
    \/ includes(errorMsg, K503)
    \/ includes(errorMsg, KOverloaded)
    \/ includes(errorMsg, KUnavailable)
    \/ includes(errorMsg, KQuota)
    \/ includes(errorMsg, K429)

RECURSIVE Pow2(_)
Pow2(n) == IF n = 0 THEN 1 ELSE 2 * Pow2(n - 1)

\* const delay = baseDelay * Math.pow(2, i)
delayOfLinear(baseDelay, i) == baseDelay * (i + 1)
delayOf(baseDelay, i) == baseDelay * Pow2(i)

\* if (isTransient && i < retries - 1)
shouldRetrySleepAtEnd(isTransient, i, retries) == isTransient /\ i < retries
shouldRetryAlways(isTransient, i, retries) == i < retries - 1
shouldRetry(isTransient, i, retries) == isTransient /\ i < retries - 1

RwIdle == [pc |-> "idle", retries |-> DefaultRetries, baseDelay |-> DefaultBaseDelay,
           i |-> 0, lastError |-> Null, result |-> Null, thrown |-> Null]
ObsIdle == [calls |-> 0, slept |-> 0, sleeps |-> 0, outcomes |-> <<>>]

\* a call runWithRetry(operation, retries, baseDelay) has just been entered
RwEntered(r, b) == [pc |-> "loop", retries |-> r, baseDelay |-> b,
                    i |-> 0, lastError |-> Null, result |-> Null, thrown |-> Null]

\* loop head: i < retries ? invoke operation() : throw lastError
RwInvoke ==
    /\ rw.pc = "loop"
    /\ IF rw.i < rw.retries
       THEN /\ rw' = [rw EXCEPT !.pc = "awaiting"]
            /\ obs' = [obs EXCEPT !.calls = @ + 1]
       ELSE /\ rw' = [rw EXCEPT !.pc = "thrown", !.thrown = rw.lastError]
            /\ obs' = obs
    /\ UNCHANGED appVars

\* the awaited operation() fulfils: return its value
RwResolve ==
    /\ rw.pc = "awaiting"
    /\ \E v \in Values :
        /\ rw' = [rw EXCEPT !.pc = "returned", !.result = v]
        /\ obs' = [obs EXCEPT !.outcomes = Append(@, [ok |-> TRUE, value |-> v])]
    /\ UNCHANGED appVars

\* the awaited operation() rejects: the catch block
RwReject ==
    /\ rw.pc = "awaiting"
    /\ \E error \in Errors :
        /\ obs' = [obs EXCEPT
                     !.outcomes = Append(@, [ok |-> FALSE, value |-> error]),
                     !.slept = IF shouldRetry(isTransientOf(errorMsgOf(error)), rw.i, rw.retries)
                               THEN @ + delayOf(rw.baseDelay, rw.i) ELSE @,
                     !.sleeps = IF shouldRetry(isTransientOf(errorMsgOf(error)), rw.i, rw.retries)
                                THEN @ + 1 ELSE @]
        /\ rw' = IF shouldRetry(isTransientOf(errorMsgOf(error)), rw.i, rw.retries)
                 THEN [rw EXCEPT !.pc = "sleeping", !.lastError = error]
                 ELSE [rw EXCEPT !.pc = "thrown", !.lastError = error, !.thrown = error]
    /\ UNCHANGED appVars

\* the sleep timer fires: continue; i++
RwWake ==
    /\ rw.pc = "sleeping"
    /\ rw' = [rw EXCEPT !.pc = "loop", !.i = @ + 1]
    /\ UNCHANGED <<obs>>
    /\ UNCHANGED appVars

(***************************************************************************)
(* App: stages, score board, preload cache                                 *)
(***************************************************************************)
HOME == "HOME"
TEST_READING == "TEST_READING"
TEST_LISTENING == "TEST_LISTENING"
TEST_WRITING == "TEST_WRITING"
TEST_SPEAKING == "TEST_SPEAKING"
USER_DETAILS_FORM == "USER_DETAILS_FORM"
RESULTS == "RESULTS"

\* enum AppState; LOADING is declared and never assigned
AppState == {HOME, "LOADING", TEST_READING, TEST_LISTENING, TEST_WRITING,
             TEST_SPEAKING, USER_DETAILS_FORM, RESULTS}

Modules == {"reading", "listening", "writing", "speaking"}

\* the percentage a Reading / Listening module may report (from the answers given)
ScoreVals == [reading |-> {60}, listening |-> {100}]
\* the score field of an EvaluationResult the provider may return
EvalScores == [writing |-> {80}, speaking |-> {40}]

ZeroScores == [m \in Modules |-> 0]
DefaultDetails == [name |-> <<>>, phone |-> <<>>, language |-> "Malayalam"]
EmptyCache == [m \in Modules |-> Null]
NoStale == [m \in Modules |-> 0]

\* updateScore: the stage each module's report advances to
nextStateOfWritingBack(module) ==
    CASE module = "reading" -> TEST_LISTENING
      [] module = "listening" -> TEST_WRITING
      [] module = "writing" -> TEST_READING
      [] module = "speaking" -> USER_DETAILS_FORM
nextStateOf(module) ==
    CASE module = "reading" -> TEST_LISTENING
      [] module = "listening" -> TEST_WRITING
      [] module = "writing" -> TEST_SPEAKING
      [] module = "speaking" -> USER_DETAILS_FORM

\* updateScore: setScores(prev => ({ ...prev, [module]: score }))
storeScoreAlone(prev, module, score) == [ZeroScores EXCEPT ![module] = score]
storeScoreShifted(prev, module, score) ==
    [prev EXCEPT ![IF module = "writing" THEN "speaking" ELSE module] = score]
storeScore(prev, module, score) == [prev EXCEPT ![module] = score]

\* renderContent: the module a stage renders
moduleOf(st) ==
    CASE st = TEST_READING -> "reading"
      [] st = TEST_LISTENING -> "listening"
      [] st = TEST_WRITING -> "writing"
      [] st = TEST_SPEAKING -> "speaking"
      [] OTHER -> "none"

\* preloading effect: the slots it starts a fetch for, given the rendered state
effectStartsUnguarded(st, pre) ==
    {m \in Modules :
        \/ st = HOME /\ m = "reading"
        \/ st = TEST_READING /\ m = "listening"
        \/ st = TEST_LISTENING /\ m = "writing"
        \/ st = TEST_WRITING /\ m = "speaking"}
effectStarts(st, pre) ==
    {m \in Modules :
        \/ st = HOME /\ m = "reading" /\ pre["reading"] = Null
        \/ st = TEST_READING /\ m = "listening" /\ pre["listening"] = Null
        \/ st = TEST_LISTENING /\ m = "writing" /\ pre["writing"] = Null
        \/ st = TEST_WRITING /\ m = "speaking" /\ pre["speaking"] = Null}

\* the effect has run after a render with (st, pre): one more fetch in flight per started slot
bgAfterEffect(b, st, pre) ==
    [m \in Modules |-> IF m \in effectStarts(st, pre) THEN b[m] + 1 ELSE b[m]]

BgWithin(b) == b["reading"] + b["listening"] + b["writing"] + b["speaking"] <= MaxInflight

(***************************************************************************)
(* Stage components                                                        *)
(***************************************************************************)
NoModule == [kind |-> "none", content |-> Null, loading |-> FALSE, step |-> "none",
             error |-> FALSE, pending |-> "none", submitted |-> FALSE,
             evaluating |-> FALSE, result |-> <<>>]

\* ReadingModule / WritingModule / SpeakingModule: useState initialisers and the
\* [preloadedData] effect of the first render
mountPlain(kind, pre) ==
    [NoModule EXCEPT !.kind = kind,
                     !.content = IF pre # Null THEN "preloaded" ELSE Null,
                     !.loading = (pre = Null),
                     !.pending = IF pre = Null THEN "fetch" ELSE "none"]

\* ListeningModule: first render and initTest up to its first await
\* (ok: decode(base64) and concatenateRawAudio did not throw)
initTestStart(m, pre, ok) ==
    IF pre # Null
    THEN IF ok
         THEN [m EXCEPT !.error = FALSE, !.step = "processing", !.content = "preloaded",
                        !.pending = "decodeAudioData"]
         ELSE [m EXCEPT !.error = TRUE, !.step = "error", !.pending = "none"]
    ELSE [m EXCEPT !.error = FALSE, !.step = "scripting", !.pending = "script"]

mountSet(kind, pre) ==
    IF kind = "none" THEN {NoModule}
    ELSE IF kind = "listening"
    THEN {initTestStart([NoModule EXCEPT !.kind = "listening", !.step = "initializing"], pre, ok) :
            ok \in BOOLEAN}
    ELSE {mountPlain(kind, pre)}

\* what a mounted Reading/Writing/Speaking module shows (the render branches in order)
screenOf(m) ==
    IF m.kind = "none" THEN "none"
    ELSE IF m.kind = "listening"
    THEN IF m.step = "error" THEN "error"
         ELSE IF m.step # "ready" THEN "loading"
         ELSE IF m.content = Null THEN "blank" ELSE "content"
    ELSE IF m.loading THEN "loading"
         ELSE IF m.error THEN "error"
         ELSE IF m.content = Null THEN "blank" ELSE "content"

(***************************************************************************)
(* Details form                                                            *)
(***************************************************************************)
Digits == {"0","1","2","3","4","5","6","7","8","9"}
IsDigit(c) == c \in Digits

\* what the user may type into the form
NameInputs == { <<"A","s","h","a">> }
PhoneInputs == { <<"9","8","7","6","5"," ","4","3","2","1","1">> }
Languages == {"Malayalam", "Tamil"}

\* phone.replace(/\D/g, '')
stripNonDigits(s) == SelectSeq(s, IsDigit)

\* name.trim() is empty
IsBlank(s) == \A k \in 1..Len(s) : s[k] = " "

BlockList == { <<"1","2","3","4","5","6","7","8","9","0">>,
               <<"9","8","7","6","5","4","3","2","1","0">>,
               <<"0","1","2","3","4","5","6","7","8","9">> }

validatePhoneNoBlockList(phone) ==
    LET cleanPhone == stripNonDigits(phone) IN
    IF Len(cleanPhone) # 10 THEN "Phone number must be exactly 10 digits."
    ELSE IF cleanPhone[1] = "0" THEN "Phone number cannot start with 0."
    ELSE IF \A k \in 1..Len(cleanPhone) : cleanPhone[k] = cleanPhone[1]
         THEN "Please enter a valid phone number (not repeated digits)."
    ELSE Null

\* validatePhone: null or the error message
validatePhone(phone) ==
    LET cleanPhone == stripNonDigits(phone) IN
    IF Len(cleanPhone) # 10 THEN "Phone number must be exactly 10 digits."
    ELSE IF cleanPhone[1] = "0" THEN "Phone number cannot start with 0."
    ELSE IF cleanPhone \in BlockList THEN "Please enter a valid, real phone number."
    ELSE IF \A k \in 1..Len(cleanPhone) : cleanPhone[k] = cleanPhone[1]
         THEN "Please enter a valid phone number (not repeated digits)."
    ELSE Null

(***************************************************************************)
(* Observation                                                             *)
(***************************************************************************)
Op(name) == [name |-> name, module |-> "none", score |-> 0, fetched |-> "none"]
OpScore(module, score) ==
    [name |-> "updateScore", module |-> module, score |-> score, fetched |-> "none"]
OpSettle(fetched) ==
    [name |-> "submitSettle", module |-> "none", score |-> 0, fetched |-> fetched]

(***************************************************************************)
(* App actions                                                             *)
(***************************************************************************)
\* a render with a new state value: renderContent mounts the stage's module with the
\* slot it is handed, then the preloading effect runs
Enter(st, pre, sp) ==
    /\ state' = st
    /\ spent' = IF moduleOf(st) \in Modules /\ pre[moduleOf(st)] # Null
                THEN sp \cup {moduleOf(st)}
                ELSE sp
    /\ mod' \in mountSet(moduleOf(st), IF moduleOf(st) \in Modules THEN pre[moduleOf(st)] ELSE Null)
    /\ bg' = bgAfterEffect(bg, st, pre)
    /\ BgWithin(bg')

\* Home: Start Mock Test
StartTest ==
    /\ state = HOME
    /\ Enter(TEST_READING, preloaded, spent)
    /\ run' = <<>>
    /\ lastOp' = Op("startTest")
    /\ UNCHANGED <<scores, userDetails, isSubmitting, formError, preloaded, submitPending, rw, obs, lt, pl, sc, fan, stale>>

\* header logo: setState(AppState.HOME)
HeaderClick ==
    /\ IF state = HOME
       THEN UNCHANGED <<state, mod, bg, spent>>
       ELSE Enter(HOME, preloaded, spent)
    /\ run' = <<>>
    /\ lastOp' = Op("headerClick")
    /\ UNCHANGED <<scores, userDetails, isSubmitting, formError, preloaded, submitPending, rw, obs, lt, pl, sc, fan, stale>>

\* updateScore(module, score), called by the mounted module's onComplete
updateScore(module, score) ==
    /\ scores' = storeScore(scores, module, score)
    /\ Enter(nextStateOf(module), preloaded, spent)
    /\ run' = Append(run, score)
    /\ lastOp' = OpScore(module, score)
    /\ UNCHANGED <<userDetails, isSubmitting, formError, preloaded, submitPending, rw, obs, lt, pl, sc, fan, stale>>

\* Results: Take Test Again
RestartKeepsSpeaking ==
    /\ state = RESULTS
    /\ scores' = ZeroScores
    /\ userDetails' = DefaultDetails
    /\ preloaded' = [EmptyCache EXCEPT !["speaking"] = preloaded["speaking"]]
    /\ Enter(HOME, preloaded', {})
    /\ run' = <<>>
    /\ lastOp' = Op("restart")
    /\ stale' = bg
    /\ UNCHANGED <<isSubmitting, formError, submitPending, rw, obs, lt, pl, sc, fan>>
Restart ==
    /\ state = RESULTS
    /\ scores' = ZeroScores
    /\ userDetails' = DefaultDetails
    /\ preloaded' = EmptyCache
    /\ Enter(HOME, preloaded', {})
    /\ run' = <<>>
    /\ lastOp' = Op("restart")
    /\ stale' = bg
    /\ UNCHANGED <<isSubmitting, formError, submitPending, rw, obs, lt, pl, sc, fan>>

\* one of the fetches in flight for slot m settles: one started before the last
\* restart, or one started after it
settleOne(b, old, m) ==
    {[old EXCEPT ![m] = @ - 1] : x \in {1} \cap 1..old[m]}
        \cup {old : x \in {1} \cap 1..(b[m] - old[m])}

\* a background fetch fulfils: .then(setPreloadedX); the module of that slot, if
\* mounted, gets a new prop; the preloading effect runs again (a dependency changed)
BgResolve ==
    \E m \in Modules :
        /\ bg[m] > 0
        /\ stale' \in settleOne(bg, stale, m)
        /\ preloaded' = [preloaded EXCEPT ![m] = "data"]
        /\ bg' = bgAfterEffect([bg EXCEPT ![m] = @ - 1], state, preloaded')
        /\ spent' = spent \ {m}
        /\ BgWithin(bg')
        /\ mod' = IF mod.kind = m /\ m # "listening"
                  THEN [mod EXCEPT !.loading = FALSE]
                  ELSE mod
        /\ lastOp' = Op("step")
        /\ UNCHANGED <<state, scores, userDetails, isSubmitting, formError, submitPending,
                       run, rw, obs, lt, pl, sc, fan>>

\* a background fetch rejects: .catch(console.error)
BgReject ==
    \E m \in Modules :
        /\ bg[m] > 0
        /\ stale' \in settleOne(bg, stale, m)
        /\ bg' = [bg EXCEPT ![m] = @ - 1]
        /\ lastOp' = Op("step")
        /\ UNCHANGED <<state, scores, userDetails, isSubmitting, formError, preloaded,
                       submitPending, mod, spent, run, rw, obs, lt, pl, sc, fan>>

(***************************************************************************)
(* Stage component actions                                                 *)
(***************************************************************************)
Plain == {"reading", "writing", "speaking"}

modFrame == <<state, scores, userDetails, isSubmitting, formError, preloaded, bg,
              submitPending, spent, run, rw, obs, lt, pl, sc, fan, stale>>

\* fetchTest / fetchTask: the awaited generate* call fulfils
FetchResolve ==
    /\ mod.kind \in Plain /\ mod.pending = "fetch"
    /\ mod' = [mod EXCEPT !.content = "fetched", !.loading = FALSE, !.pending = "none"]
    /\ lastOp' = Op("step")
    /\ UNCHANGED modFrame

\* fetchTest / fetchTask: the awaited generate* call rejects
FetchRejectSilent ==
    /\ mod.kind \in Plain /\ mod.pending = "fetch"
    /\ mod' = [mod EXCEPT !.loading = FALSE, !.pending = "none"]
    /\ lastOp' = Op("step")
    /\ UNCHANGED modFrame
FetchReject ==
    /\ mod.kind \in Plain /\ mod.pending = "fetch"
    /\ mod' = [mod EXCEPT !.error = TRUE, !.loading = FALSE, !.pending = "none"]
    /\ lastOp' = Op("step")
    /\ UNCHANGED modFrame

\* what Try Again runs, up to its first await: initTest for Listening, else
\* fetchTest / fetchTask, which returns at once when preloadedData is set
retryOf(m, pre) ==
    IF m.kind = "listening"
    THEN {initTestStart(m, pre, ok) : ok \in BOOLEAN}
    ELSE IF pre # Null
         THEN {m}
         ELSE {[m EXCEPT !.loading = TRUE, !.error = FALSE, !.pending = "fetch"]}

\* error screen: Try Again -> fetchTest / fetchTask / initTest
Retry ==
    /\ screenOf(mod) = "error"
    /\ mod' \in retryOf(mod, preloaded[mod.kind])
    /\ lastOp' = Op("step")
    /\ UNCHANGED modFrame

\* initTest: generateListeningTestScript() settles
ScriptSettle ==
    /\ mod.kind = "listening" /\ mod.pending = "script"
    /\ \E ok \in BOOLEAN :
        mod' = IF ok
               THEN [mod EXCEPT !.step = "synthesizing", !.pending = "synth"]
               ELSE [mod EXCEPT !.step = "error", !.error = TRUE, !.pending = "none"]
    /\ lastOp' = Op("step")
    /\ UNCHANGED modFrame

\* initTest: Promise.all of the generateAudioFromScript calls settles; on success
\* decode + concatenateRawAudio run (decoded: they did not throw) and setContent
SynthSettle ==
    /\ mod.kind = "listening" /\ mod.pending = "synth"
    /\ \E ok \in BOOLEAN, decoded \in BOOLEAN :
        mod' = IF ok /\ decoded
               THEN [mod EXCEPT !.step = "processing", !.content = "fetched",
                                !.pending = "decodeAudioData"]
               ELSE [mod EXCEPT !.step = "error", !.error = TRUE, !.pending = "none"]
    /\ lastOp' = Op("step")
    /\ UNCHANGED modFrame

\* initTest: decodeAudioData settles
DecodeSettle ==
    /\ mod.kind = "listening" /\ mod.pending = "decodeAudioData"
    /\ \E ok \in BOOLEAN :
        mod' = IF ok
               THEN [mod EXCEPT !.step = "ready", !.pending = "none"]
               ELSE [mod EXCEPT !.step = "error", !.error = TRUE, !.pending = "none"]
    /\ lastOp' = Op("step")
    /\ UNCHANGED modFrame

\* Reading / Listening: Submit Answers (enabled once every question is answered)
SubmitAnswers ==
    /\ mod.kind \in {"reading", "listening"}
    /\ screenOf(mod) = "content" /\ ~mod.submitted
    /\ mod' = [mod EXCEPT !.submitted = TRUE]
    /\ lastOp' = Op("step")
    /\ UNCHANGED modFrame

\* Reading / Listening: Next Module -> onComplete(percentage of correct answers)
NextModule ==
    /\ mod.kind \in {"reading", "listening"}
    /\ screenOf(mod) = "content" /\ mod.submitted
    /\ \E score \in ScoreVals[mod.kind] : updateScore(mod.kind, score)

\* Writing / Speaking: handleSubmit up to `await evaluate*`
SubmitForGrading ==
    /\ mod.kind \in {"writing", "speaking"}
    /\ screenOf(mod) = "content" /\ mod.result = <<>> /\ ~mod.evaluating
    /\ mod' = [mod EXCEPT !.evaluating = TRUE, !.pending = "evaluate"]
    /\ lastOp' = Op("step")
    /\ UNCHANGED modFrame

\* Writing / Speaking: the evaluation settles; result is <<>> (null) or <<score>>
EvalSettle ==
    /\ mod.kind \in {"writing", "speaking"} /\ mod.pending = "evaluate"
    /\ \E r \in {<<>>} \cup {<<v>> : v \in EvalScores[mod.kind]} :
        mod' = [mod EXCEPT !.result = r, !.evaluating = FALSE, !.pending = "none"]
    /\ lastOp' = Op("step")
    /\ UNCHANGED modFrame

\* Writing: Next Module / Speaking: Finish Test -> onComplete(result.score)
FinishModule ==
    /\ mod.kind \in {"writing", "speaking"}
    /\ screenOf(mod) = "content" /\ mod.result # <<>>
    /\ updateScore(mod.kind, mod.result[1])

(***************************************************************************)
(* Details form actions                                                    *)
(***************************************************************************)
formFrame == <<state, scores, preloaded, bg, mod, spent, run, rw, obs, lt, pl, sc, fan, stale>>

\* the form's inputs (disabled while isSubmitting): the name as typed, the phone's
\* digits when at most 15, the language select
editDetails(names, phones, languages) ==
    /\ state = USER_DETAILS_FORM /\ ~isSubmitting
    /\ \/ \E n \in names :
            /\ userDetails' = [userDetails EXCEPT !.name = n]
            /\ formError' = Null
       \/ \E typed \in phones :
            /\ userDetails' = IF Len(stripNonDigits(typed)) <= 15
                              THEN [userDetails EXCEPT !.phone = stripNonDigits(typed)]
                              ELSE userDetails
            /\ formError' = Null
       \/ \E l \in languages :
            /\ userDetails' = [userDetails EXCEPT !.language = l]
            /\ formError' = formError
    /\ lastOp' = Op("step")
    /\ UNCHANGED <<isSubmitting, submitPending>>
    /\ UNCHANGED formFrame

EditDetails == editDetails(NameInputs, PhoneInputs, Languages)

\* handleFormSubmit up to `await submitTestResults` (both inputs are `required`)
handleFormSubmit ==
    /\ state = USER_DETAILS_FORM /\ ~isSubmitting
    /\ userDetails.name # <<>> /\ userDetails.phone # <<>>
    /\ IF IsBlank(userDetails.name)
       THEN /\ formError' = "Please enter your full name."
            /\ UNCHANGED <<isSubmitting, submitPending>>
       ELSE IF validatePhone(userDetails.phone) # Null
       THEN /\ formError' = validatePhone(userDetails.phone)
            /\ UNCHANGED <<isSubmitting, submitPending>>
       ELSE /\ formError' = Null
            /\ isSubmitting' = TRUE
            /\ submitPending' = TRUE
    /\ lastOp' = Op("formSubmit")
    /\ UNCHANGED userDetails
    /\ UNCHANGED formFrame

\* how the fetch of submitTestResults may settle
FetchOutcomes == {"fulfilled", "rejected"}

\* submitTestResults, given how its fetch settles: the catch block logs a rejection
\* and the returned promise resolves
submitTestResultsRethrows(fetched) ==
    CASE fetched = "fulfilled" -> "resolved"
      [] fetched = "rejected" -> "rejected"
submitTestResults(fetched) ==
    CASE fetched = "fulfilled" -> "resolved"
      [] fetched = "rejected" -> "resolved"

\* handleFormSubmit after the await: setIsSubmitting(false); setState(RESULTS); a
\* rejected await would end the handler there
SubmitSettle ==
    /\ submitPending
    /\ submitPending' = FALSE
    /\ \E fetched \in FetchOutcomes :
        /\ IF submitTestResults(fetched) = "resolved"
           THEN /\ isSubmitting' = FALSE
                /\ Enter(RESULTS, preloaded, spent)
           ELSE UNCHANGED <<isSubmitting, state, spent, mod, bg>>
        /\ lastOp' = OpSettle(fetched)
    /\ UNCHANGED <<scores, userDetails, formError, preloaded, run, rw, obs, lt, pl, sc, fan, stale>>

(***************************************************************************)
(* audioUtils: bytes are integers in 0..255, a buffer is a sequence of bytes *)
(***************************************************************************)
DigitSeq == <<"0","1","2","3","4","5","6","7","8","9">>
B64Alphabet == Upper \o Lower \o DigitSeq \o <<"+","/">>

b64Value(c) == (CHOOSE k \in 1..64 : B64Alphabet[k] = c) - 1

\* atob: the padding "=" / "==" of a string whose length is a multiple of 4 is dropped
b64Body(data) ==
    IF Len(data) > 0 /\ Len(data) % 4 = 0 /\ data[Len(data)] = "="
    THEN IF data[Len(data) - 1] = "="
         THEN SubSeq(data, 1, Len(data) - 2)
         ELSE SubSeq(data, 1, Len(data) - 1)
    ELSE data

\* atob throws InvalidCharacterError unless this holds
atobValid(data) ==
    /\ Len(b64Body(data)) % 4 # 1
    /\ \A k \in 1..Len(b64Body(data)) : \E j \in 1..64 : B64Alphabet[j] = b64Body(data)[k]

RECURSIVE atobBytes(_)
\* atob on the body: 4 characters give 3 bytes, a rest of 3 gives 2, a rest of 2 gives 1
atobBytes(body) ==
    IF Len(body) < 2 THEN <<>>
    ELSE IF Len(body) = 2
    THEN << b64Value(body[1]) * 4 + (b64Value(body[2]) \div 16) >>
    ELSE IF Len(body) = 3
    THEN << b64Value(body[1]) * 4 + (b64Value(body[2]) \div 16),
            (b64Value(body[2]) % 16) * 16 + (b64Value(body[3]) \div 4) >>
    ELSE << b64Value(body[1]) * 4 + (b64Value(body[2]) \div 16),
            (b64Value(body[2]) % 16) * 16 + (b64Value(body[3]) \div 4),
            (b64Value(body[3]) % 4) * 64 + b64Value(body[4]) >>
         \o atobBytes(SubSeq(body, 5, Len(body)))

\* decode(base64): the char codes of atob(base64), for a string atob accepts
decode(base64) == atobBytes(b64Body(base64))

Zeros(n) == [k \in 1..n |-> 0]

\* result.set(seg, offset) on a Uint8Array
setAt(result, seg, offset) ==
    [k \in 1..Len(result) |->
        IF k > offset /\ k <= offset + Len(seg) THEN seg[k - offset] ELSE result[k]]

RECURSIVE sumLengths(_)
\* segments.reduce((acc, seg) => acc + seg.length, 0)
sumLengths(segments) ==
    IF segments = <<>> THEN 0 ELSE Len(Head(segments)) + sumLengths(Tail(segments))

Max(a, b) == IF a >= b THEN a ELSE b

\* concatenateRawAudio: silenceLength and totalLength
silenceLengthOf(silenceDurationSec, sampleRate) == silenceDurationSec * sampleRate * 2
totalLengthPaddedEach(segments, silenceLength) ==
    sumLengths(segments) + Len(segments) * silenceLength
totalLengthOf(segments, silenceLength) ==
    sumLengths(segments) + Max(0, Len(segments) - 1) * silenceLength

RECURSIVE forEachSegmentPacked(_, _, _, _, _)
forEachSegmentPacked(segments, i, result, offset, silenceLength) ==
    IF i > Len(segments) THEN result
    ELSE forEachSegmentPacked(segments, i + 1, setAt(result, segments[i], offset),
                              offset + Len(segments[i]), silenceLength)
RECURSIVE forEachSegment(_, _, _, _, _)
\* concatenateRawAudio: segments.forEach from index i (1-based) with the running offset
forEachSegment(segments, i, result, offset, silenceLength) ==
    IF i > Len(segments) THEN result
    ELSE forEachSegment(segments, i + 1, setAt(result, segments[i], offset),
                        offset + Len(segments[i])
                            + (IF i < Len(segments) THEN silenceLength ELSE 0),
                        silenceLength)

concatenateRawAudio(segments, silenceDurationSec, sampleRate) ==
    LET silenceLength == silenceLengthOf(silenceDurationSec, sampleRate) IN
    forEachSegment(segments, 1, Zeros(totalLengthOf(segments, silenceLength)), 0,
                   silenceLength)

\* new Int16Array(data.buffer) throws RangeError on an odd byte length, and
\* ctx.createBuffer(numChannels, 0, sampleRate) throws NotSupportedError
decodeAudioDataThrows(data) == Len(data) % 2 = 1 \/ Len(data) = 0

\* element k of new Int16Array(data.buffer): little-endian, two's complement
int16At(data, k) ==
    LET u == data[2 * k - 1] + 256 * data[2 * k] IN
    IF u >= 32768 THEN u - 65536 ELSE u

\* dataInt16[i] / 32768.0, as the exact fraction num/den
normalizeBy32767(v) == [num |-> v, den |-> 32767]
normalize(v) == [num |-> v, den |-> 32768]

\* decodeAudioData with numChannels = 1: the channel data of the AudioBuffer
decodeAudioData(data) == [k \in 1..(Len(data) \div 2) |-> normalize(int16At(data, k))]

(***************************************************************************)
(* Listening fetch: the synthesis fan-out of initTest / preloadListeningTest, *)
(* then decode, concatenateRawAudio and decodeAudioData                       *)
(***************************************************************************)
\* what generateAudioFromScript may resolve with (base64 text):
\* bytes 00 80 | bytes FF 7F 00 00 | one byte 01 | no byte | not base64
AudioInputs == { <<"A","I","A","=">>,
                 <<"/","3","8","A","A","A","=","=">>,
                 <<"A","Q","=","=">>,
                 <<>>,
                 <<"!">> }

\* the silenceDurationSec and sampleRate arguments of concatenateRawAudio
SilenceSecs == {1, 2}
SampleRates == {1, 2}

LtIdle == [audio |-> <<>>, secs |-> 0, rate |-> 0, calls |-> <<>>, results |-> <<>>,
           order |-> <<>>, pc |-> "idle", segments |-> <<>>, combined |-> <<>>,
           buffer |-> <<>>]

\* initTest at `await Promise.all(audioPromises)`: one call per part is pending
LtSynthesizing(audio, secs, rate) ==
    [LtIdle EXCEPT !.audio = audio, !.secs = secs, !.rate = rate,
                   !.calls = [k \in 1..Len(audio) |-> "pending"],
                   !.results = [k \in 1..Len(audio) |-> <<>>],
                   !.pc = "synthesizing"]

\* Promise.all: the value of the promise at index i is kept at index i
promiseAllStoreArrival(results, i, v) ==
    [results EXCEPT ![CHOOSE k \in 1..Len(results) :
                          results[k] = <<>> /\ \A j \in 1..(k - 1) : results[j] # <<>>] = <<v>>]
promiseAllStore(results, i, v) == [results EXCEPT ![i] = <<v>>]

ltFrame == <<state, scores, userDetails, isSubmitting, formError, preloaded, bg,
             submitPending, mod, spent, lastOp, run, rw, obs, pl, sc, fan, stale>>

\* the generateAudioFromScript call of part i fulfils
SynthFulfil ==
    \E i \in 1..Len(lt.calls) :
        /\ lt.pc \in {"synthesizing", "error"} /\ lt.calls[i] = "pending"
        /\ lt' = [lt EXCEPT !.calls[i] = "fulfilled",
                            !.results = promiseAllStore(lt.results, i, lt.audio[i]),
                            !.order = Append(@, i)]
        /\ UNCHANGED ltFrame

\* the generateAudioFromScript call of part i rejects (retries used up): Promise.all
\* rejects at the first rejection and initTest's catch sets the error step
SynthReject ==
    \E i \in 1..Len(lt.calls) :
        /\ lt.pc \in {"synthesizing", "error"} /\ lt.calls[i] = "pending"
        /\ lt' = [lt EXCEPT !.calls[i] = "rejected", !.order = Append(@, i),
                            !.pc = "error"]
        /\ UNCHANGED ltFrame

\* Promise.all has fulfilled: decode every part, concatenateRawAudio, setContent
AssembleOnAnySettled ==
    /\ lt.pc \in {"synthesizing", "error"}
    /\ \A k \in 1..Len(lt.calls) : lt.calls[k] # "pending"
    /\ lt.combined = <<>>
    /\ LET got == SelectSeq(lt.results, LAMBDA r : r # <<>>) IN
       IF \E k \in 1..Len(got) : ~atobValid(got[k][1])
       THEN lt' = [lt EXCEPT !.pc = "error"]
       ELSE LET audioSegments == [k \in 1..Len(got) |-> decode(got[k][1])] IN
            lt' = [lt EXCEPT !.pc = "processing", !.segments = audioSegments,
                              !.combined = <<concatenateRawAudio(audioSegments, lt.secs, lt.rate)>>]
    /\ UNCHANGED ltFrame
Assemble ==
    /\ lt.pc = "synthesizing"
    /\ \A k \in 1..Len(lt.calls) : lt.calls[k] = "fulfilled"
    /\ IF \E k \in 1..Len(lt.results) : ~atobValid(lt.results[k][1])
       THEN lt' = [lt EXCEPT !.pc = "error"]
       ELSE LET audioSegments == [k \in 1..Len(lt.results) |-> decode(lt.results[k][1])] IN
            lt' = [lt EXCEPT !.pc = "processing", !.segments = audioSegments,
                              !.combined = <<concatenateRawAudio(audioSegments, lt.secs, lt.rate)>>]
    /\ UNCHANGED ltFrame

\* decodeAudioData(combinedRawBytes, ctx) settles; audioBufferRef.current = buffer
DecodeAudio ==
    /\ lt.pc = "processing"
    /\ IF decodeAudioDataThrows(lt.combined[1])
       THEN lt' = [lt EXCEPT !.pc = "error"]
       ELSE lt' = [lt EXCEPT !.pc = "ready", !.buffer = <<decodeAudioData(lt.combined[1])>>]
    /\ UNCHANGED ltFrame

(***************************************************************************)
(* ListeningModule: playback. The audio context is created lazily by       *)
(* initTest, toggleAudio starts and stops buffer sources, the effect       *)
(* cleanup stops the current source and closes the context                 *)
(***************************************************************************)
\* the state a new AudioContext may have (the autoplay policy decides)
NewContextStates == {"suspended", "running"}

\* the listening contents an initTest run may hold (0: none)
PlContents == {1, 2}

PlIdle == [mounted |-> FALSE, fetching |-> FALSE, loadingStep |-> "idle",
           audioContext |-> "none", audioBuffer |-> 0, isPlaying |-> FALSE,
           sourceRef |-> 0, sources |-> <<>>, resuming |-> 0, content |-> 0]

\* the instance after its first render and the effect's initTest() call
PlMounted == [PlIdle EXCEPT !.mounted = TRUE, !.fetching = TRUE,
                            !.loadingStep = "loading"]

\* a state setter of the component: React drops the update of an unmounted instance
setIfMounted(p, field, v) == IF p.mounted THEN [p EXCEPT ![field] = v] ELSE p

\* AudioBufferSourceNode.stop() on sourceRef.current?: a playing source stops and
\* its ended event is queued; no source, or one that has ended, is left alone
stopSource(sources, ref) ==
    IF ref # 0 /\ sources[ref] = "playing" THEN [sources EXCEPT ![ref] = "ending"]
    ELSE sources

\* AudioContext.close(): nothing of a closed context is heard any more
closeSources(sources) ==
    [k \in 1..Len(sources) |-> IF sources[k] = "playing" THEN "closed" ELSE sources[k]]

\* toggleAudio from createBufferSource() on: a new source becomes sourceRef.current,
\* isPlaying is set and the source starts
startSource(p) ==
    [setIfMounted(p, "isPlaying", TRUE) EXCEPT
        !.sources = Append(@, "playing"), !.sourceRef = Len(p.sources) + 1]

Playing(p) == {k \in 1..Len(p.sources) : p.sources[k] = "playing"}

plFrame == <<state, scores, userDetails, isSubmitting, formError, preloaded, bg,
             submitPending, mod, spent, lastOp, run, rw, obs, lt, sc, fan, stale>>

\* initTest fails before the context is prepared (script, synthesis or assembly)
PlFetchFail ==
    /\ pl.fetching
    /\ pl' = [setIfMounted(pl, "loadingStep", "error") EXCEPT !.fetching = FALSE]
    /\ UNCHANGED plFrame

PlPrepareReadyFirst ==
    /\ pl.fetching
    /\ \E c \in PlContents, st \in NewContextStates, ok \in BOOLEAN :
        LET ctx == IF pl.audioContext = "none" THEN st ELSE pl.audioContext
            p1 == [setIfMounted(pl, "content", c) EXCEPT
                      !.audioContext = ctx, !.fetching = FALSE,
                      !.audioBuffer = IF ok THEN c ELSE @]
        IN pl' = setIfMounted(p1, "loadingStep", "ready")
    /\ UNCHANGED plFrame
\* initTest from setContent(testContent) on: the context is created unless one
\* exists, then decodeAudioData of that content's assembled bytes resolves
\* (audioBufferRef.current = buffer, ready) or throws (error)
PlPrepare ==
    /\ pl.fetching
    /\ \E c \in PlContents, st \in NewContextStates, ok \in BOOLEAN :
        LET ctx == IF pl.audioContext = "none" THEN st ELSE pl.audioContext
            p1 == [setIfMounted(pl, "content", c) EXCEPT
                      !.audioContext = ctx, !.fetching = FALSE,
                      !.audioBuffer = IF ok THEN c ELSE @]
        IN pl' = setIfMounted(p1, "loadingStep", IF ok THEN "ready" ELSE "error")
    /\ UNCHANGED plFrame

\* Try Again on the error screen: initTest runs again in the same instance
PlRetry ==
    /\ pl.mounted /\ pl.loadingStep = "error" /\ ~pl.fetching
    /\ pl' = [pl EXCEPT !.fetching = TRUE, !.loadingStep = "loading"]
    /\ UNCHANGED plFrame

\* a click on the play button: toggleAudio up to its await or its end
toggleAudio ==
    /\ pl.mounted /\ pl.loadingStep = "ready"
    /\ pl.audioContext # "none" /\ pl.audioBuffer # 0
    /\ IF pl.isPlaying
       THEN pl' = [pl EXCEPT !.sources = stopSource(@, pl.sourceRef),
                             !.isPlaying = FALSE]
       ELSE IF pl.audioContext = "suspended"
       THEN /\ pl.resuming < MaxResuming
            /\ pl' = [pl EXCEPT !.resuming = @ + 1]
       ELSE /\ Len(pl.sources) < MaxSources
            /\ pl' = startSource(pl)
    /\ UNCHANGED plFrame

\* audioContext.resume() settles for one suspended toggleAudio call: fulfilled, the
\* call goes on to start a source; rejected (context closed), the call ends
PlResumed ==
    /\ pl.resuming > 0
    /\ IF pl.audioContext = "closed"
       THEN pl' = [pl EXCEPT !.resuming = @ - 1]
       ELSE /\ Len(pl.sources) < MaxSources
            /\ pl' = startSource([pl EXCEPT !.resuming = @ - 1,
                                            !.audioContext = "running"])
    /\ UNCHANGED plFrame

\* a playing source reaches the end of the buffer: its ended event is queued
PlReachEnd ==
    /\ \E k \in Playing(pl) : pl' = [pl EXCEPT !.sources[k] = "ending"]
    /\ UNCHANGED plFrame

\* the ended event of a source is dispatched: source.onended
PlEnded ==
    /\ \E k \in 1..Len(pl.sources) :
        /\ pl.sources[k] = "ending"
        /\ pl' = setIfMounted([pl EXCEPT !.sources[k] = "done"], "isPlaying", FALSE)
    /\ UNCHANGED plFrame

\* the instance is unmounted: the effect cleanup
PlTeardown ==
    /\ pl.mounted
    /\ pl' = [pl EXCEPT !.mounted = FALSE,
                        !.sources = IF pl.audioContext = "none"
                                    THEN stopSource(@, pl.sourceRef)
                                    ELSE closeSources(stopSource(@, pl.sourceRef)),
                        !.audioContext = IF @ = "none" THEN "none" ELSE "closed"]
    /\ UNCHANGED plFrame

(***************************************************************************)
(* Scores: what each stage reports to updateScore, the evaluation request  *)
(* of the Speaking stage, getAverageScore and the submitted record.        *)
(* Numbers are exact fractions num/den; den = 0 is NaN                     *)
(***************************************************************************)
num(n) == [num |-> n, den |-> 1]
NaN == [num |-> 0, den |-> 0]
isNaN(x) == x.den = 0

\* (correct / total) * 100 in JavaScript: 0 / 0 is NaN
percent(correct, total) == [num |-> correct * 100, den |-> total]

plus(x, y) ==
    IF isNaN(x) \/ isNaN(y) THEN NaN
    ELSE [num |-> x.num * y.den + y.num * x.den, den |-> x.den * y.den]

dividedBy(x, n) == IF isNaN(x) THEN NaN ELSE [num |-> x.num, den |-> x.den * n]

\* Math.round: the nearest integer, a half rounds up; NaN stays NaN
mathRound(x) == IF isNaN(x) THEN NaN ELSE num((2 * x.num + x.den) \div (2 * x.den))

\* getAverageScore
getAverageScore(s) ==
    mathRound(dividedBy(plus(plus(plus(s.reading, s.listening), s.writing), s.speaking), 4))

\* the two revisions of ListeningModule and geminiService the sources hold
Revisions == {1, 2}

\* the questions of a Reading or Listening content: ids and correct option indices
\* are what the provider returned
QuestionIds == 1..MaxQuestions
OptionIndices == {0, 1}
Question == [id : QuestionIds, correctAnswerIndex : OptionIndices]
Contents == SeqsUpTo(Question, MaxQuestions)

\* the score field of an EvaluationResult: any integer the provider returns
ProviderScores == {-1, 0, 80, 100, 101}

\* setAnswers(prev => ({...prev, [questionId]: optionIndex}))
selectAnswer(answers, questionId, optionIndex) ==
    {p \in answers : p[1] # questionId} \cup {<<questionId, optionIndex>>}

\* handleSelect: if (submitted) return; setAnswers(...)
handleSelectAlways(submitted, answers, questionId, optionIndex) ==
    selectAnswer(answers, questionId, optionIndex)
handleSelect(submitted, answers, questionId, optionIndex) ==
    IF submitted THEN answers ELSE selectAnswer(answers, questionId, optionIndex)

\* Object.keys(answers)
keysOf(answers) == {p[1] : p \in answers}

\* Next Module of Reading / Listening: the questions answered correctly
countCorrect(questions, answers) ==
    Cardinality({k \in 1..Len(questions) :
                    <<questions[k].id, questions[k].correctAnswerIndex>> \in answers})

\* Next Module of Reading / Listening: the score passed to onComplete
reportOf(kind, revision, questions, answers) ==
    LET correct == countCorrect(questions, answers)
        total == Len(questions)
    IN IF kind = "listening" /\ revision = 1 THEN percent(correct, total)
       ELSE IF total > 0 THEN percent(correct, total) ELSE num(0)

\* Speaking inputs: the recording (none, an empty Blob, a Blob with data) and the text
AudioBlobs == {"null", "empty", "data"}
TextInputs == {<<>>, <<" ">>, <<"H", "i">>}

\* blobToBase64: the part of the data URL after the comma
blobToBase64(blob) == IF blob = "data" THEN <<"A", "Q", "=", "=">> ELSE <<>>

\* an optional string argument is truthy when given and not empty
truthy(opt) == opt # <<>> /\ opt[1] # <<>>

\* evaluateSpeaking: the graded artifacts among the parts of the request, or a throw
\* before any request
evaluateSpeakingParts(revision, input) ==
    IF revision = 1
    THEN [thrown |-> FALSE,
          artifacts |-> (IF truthy(input.audioBase64) THEN {"audio"} ELSE {})
                        \cup (IF truthy(input.text) THEN {"text"} ELSE {})]
    ELSE IF truthy(input.audioBase64) THEN [thrown |-> FALSE, artifacts |-> {"audio"}]
    ELSE IF truthy(input.text) THEN [thrown |-> FALSE, artifacts |-> {"text"}]
    ELSE [thrown |-> TRUE, artifacts |-> {}]

\* SpeakingModule handleSubmit: the argument it passes to evaluateSpeaking
speakingInputOf(useTextFallback, audioBlob, textInput) ==
    IF useTextFallback THEN [audioBase64 |-> <<>>, text |-> <<textInput>>]
    ELSE [audioBase64 |-> <<blobToBase64(audioBlob)>>, text |-> <<>>]

ScIdle == [revision |-> 0, state |-> HOME, scores |-> [m \in Modules |-> num(0)],
           questions |-> <<>>, answers |-> {}, submitted |-> FALSE,
           useTextFallback |-> FALSE, audioBlob |-> "null", textInput |-> <<>>,
           request |-> <<>>, result |-> <<>>, error |-> FALSE, record |-> <<>>]

\* a stage is mounted with fresh component state
ScStage(s, st, questions) ==
    [s EXCEPT !.state = st, !.questions = questions, !.answers = {},
              !.submitted = FALSE, !.useTextFallback = FALSE, !.audioBlob = "null",
              !.textInput = <<>>, !.request = <<>>, !.result = <<>>, !.error = FALSE]

\* updateScore as the stage's onComplete; the next stage gets the content the
\* provider returned for it
ScComplete(score) ==
    LET module == moduleOf(sc.state)
        s1 == [sc EXCEPT !.scores = storeScore(sc.scores, module, score)]
    IN \E questions \in Contents :
        sc' = ScStage(s1, nextStateOf(module),
                      IF nextStateOf(module) = TEST_LISTENING THEN questions ELSE <<>>)

scFrame == <<state, scores, userDetails, isSubmitting, formError, preloaded, bg,
             submitPending, mod, spent, lastOp, run, rw, obs, lt, pl, fan, stale>>

\* Reading / Listening: an option of a question is selected
ScSelect ==
    /\ sc.state \in {TEST_READING, TEST_LISTENING}
    /\ \E k \in 1..Len(sc.questions), optionIndex \in OptionIndices :
        sc' = [sc EXCEPT !.answers = handleSelect(sc.submitted, @, sc.questions[k].id,
                                                  optionIndex)]
    /\ UNCHANGED scFrame

\* Reading / Listening: Submit Answers, enabled when every question has an answer
ScSubmitAnswers ==
    /\ sc.state \in {TEST_READING, TEST_LISTENING} /\ ~sc.submitted
    /\ Cardinality(keysOf(sc.answers)) = Len(sc.questions)
    /\ sc' = [sc EXCEPT !.submitted = TRUE]
    /\ UNCHANGED scFrame

\* Reading / Listening: Next Module
ScNextModule ==
    /\ sc.state \in {TEST_READING, TEST_LISTENING} /\ sc.submitted
    /\ ScComplete(reportOf(moduleOf(sc.state), sc.revision, sc.questions, sc.answers))
    /\ UNCHANGED scFrame

\* Speaking: the recorder stops (setAudioBlob), the recording is discarded, the text
\* fallback is switched, the text is edited
ScSpeakingInput ==
    /\ sc.state = TEST_SPEAKING /\ sc.result = <<>>
    /\ \/ \E b \in AudioBlobs : sc' = [sc EXCEPT !.audioBlob = b]
       \/ \E f \in BOOLEAN : sc' = [sc EXCEPT !.useTextFallback = f]
       \/ \E t \in TextInputs : sc' = [sc EXCEPT !.textInput = t]
    /\ UNCHANGED scFrame

\* Writing: handleSubmit with its evaluateWriting call settled
ScEvaluateWriting ==
    /\ sc.state = TEST_WRITING /\ sc.result = <<>>
    /\ \/ \E score \in ProviderScores :
            sc' = [sc EXCEPT !.result = <<num(score)>>, !.error = FALSE]
       \/ sc' = [sc EXCEPT !.error = TRUE]
    /\ UNCHANGED scFrame

\* Speaking: handleSubmit with its evaluateSpeaking call settled
ScEvaluateSpeaking ==
    /\ sc.state = TEST_SPEAKING /\ sc.result = <<>>
    /\ sc.useTextFallback \/ sc.audioBlob # "null"
    /\ ~sc.useTextFallback \/ ~IsBlank(sc.textInput)
    /\ LET call == evaluateSpeakingParts(sc.revision,
                       speakingInputOf(sc.useTextFallback, sc.audioBlob, sc.textInput))
       IN IF call.thrown THEN sc' = [sc EXCEPT !.error = TRUE]
          ELSE \/ \E score \in ProviderScores :
                    sc' = [sc EXCEPT !.request = <<call.artifacts>>,
                                     !.result = <<num(score)>>, !.error = FALSE]
               \/ sc' = [sc EXCEPT !.request = <<call.artifacts>>, !.error = TRUE]
    /\ UNCHANGED scFrame

\* Writing / Speaking: Next Module, onComplete(result.score)
ScFinishModule ==
    /\ sc.state \in {TEST_WRITING, TEST_SPEAKING} /\ sc.result # <<>>
    /\ ScComplete(sc.result[1])
    /\ UNCHANGED scFrame

\* handleFormSubmit with valid details: the record handed to submitTestResults
ScFormSubmit ==
    /\ sc.state = USER_DETAILS_FORM
    /\ sc' = [sc EXCEPT !.state = RESULTS,
                        !.record = <<[readingScore |-> mathRound(sc.scores.reading),
                                      listeningScore |-> mathRound(sc.scores.listening),
                                      writingScore |-> mathRound(sc.scores.writing),
                                      speakingScore |-> mathRound(sc.scores.speaking),
                                      averageScore |-> getAverageScore(sc.scores)]>>]
    /\ UNCHANGED scFrame

(***************************************************************************)
(* The remote calls of one listening fetch (preloadListeningTest, or       *)
(* initTest without preloaded data): generateListeningTestScript, then one *)
(* generateAudioFromScript per part, each inside its own runWithRetry      *)
(***************************************************************************)
\* a runWithRetry call just entered: its loop variable i, and its invocations so far
FanCall == [pc |-> "loop", i |-> 0, invocations |-> 0]

FanIdle == [calls |-> <<>>, parts |-> 0]

\* the fetch has called generateListeningTestScript: call 1; the synthesis call of
\* part k will be call k + 1
FanScripting == [calls |-> <<FanCall>>, parts |-> 0]

\* content.parts.map(... generateAudioFromScript(...)): one call per part
issueSynthesis(calls, parts) == calls \o [k \in 1..parts |-> FanCall]

\* continue; i++ in the runWithRetry call c: i is a local of that call
nextAttemptShared(calls, c) ==
    [k \in 1..Len(calls) |->
        IF k = c THEN [calls[k] EXCEPT !.pc = "loop", !.i = @ + 1]
        ELSE [calls[k] EXCEPT !.i = @ + 1]]
nextAttempt(calls, c) == [calls EXCEPT ![c].pc = "loop", ![c].i = @ + 1]

fanFrame == <<state, scores, userDetails, isSubmitting, formError, preloaded, bg,
              submitPending, mod, spent, lastOp, run, rw, obs, lt, pl, sc, stale>>

\* loop head of call c: i < retries ? invoke operation() : throw lastError
FanInvoke ==
    /\ \E c \in 1..Len(fan.calls) :
        /\ fan.calls[c].pc = "loop"
        /\ fan' = IF fan.calls[c].i < DefaultRetries
                  THEN [fan EXCEPT !.calls[c].pc = "awaiting",
                                   !.calls[c].invocations = @ + 1]
                  ELSE [fan EXCEPT !.calls[c].pc = "thrown"]
    /\ UNCHANGED fanFrame

\* the operation of call c fulfils; the script call returns a content of 0..MaxParts
\* parts and the fetch goes on to issue the synthesis calls
FanResolve ==
    /\ \E c \in 1..Len(fan.calls) :
        /\ fan.calls[c].pc = "awaiting"
        /\ IF c = 1
           THEN \E parts \in 0..MaxParts :
                    fan' = [calls |-> issueSynthesis(
                                          [fan.calls EXCEPT ![1].pc = "returned"], parts),
                            parts |-> parts]
           ELSE fan' = [fan EXCEPT !.calls[c].pc = "returned"]
    /\ UNCHANGED fanFrame

\* the operation of call c rejects: the catch block of that call
FanReject ==
    /\ \E c \in 1..Len(fan.calls), error \in Errors :
        /\ fan.calls[c].pc = "awaiting"
        /\ fan' = IF shouldRetry(isTransientOf(errorMsgOf(error)), fan.calls[c].i,
                                 DefaultRetries)
                  THEN [fan EXCEPT !.calls[c].pc = "sleeping"]
                  ELSE [fan EXCEPT !.calls[c].pc = "thrown"]
    /\ UNCHANGED fanFrame

\* the sleep timer of call c fires
FanWake ==
    /\ \E c \in 1..Len(fan.calls) :
        /\ fan.calls[c].pc = "sleeping"
        /\ fan' = [fan EXCEPT !.calls = nextAttempt(fan.calls, c)]
    /\ UNCHANGED fanFrame

(***************************************************************************)
(* Specifications                                                          *)
(***************************************************************************)
\* App after its first render and first run of the preloading effect
InitApp ==
    /\ state = HOME
    /\ scores = ZeroScores
    /\ userDetails = DefaultDetails
    /\ isSubmitting = FALSE
    /\ formError = Null
    /\ preloaded = EmptyCache
    /\ bg = bgAfterEffect([m \in Modules |-> 0], HOME, EmptyCache)
    /\ submitPending = FALSE
    /\ mod = NoModule
    /\ spent = {}
    /\ lastOp = Op("init")
    /\ run = <<>>

Init == InitApp /\ rw = RwIdle /\ obs = ObsIdle /\ lt = LtIdle /\ pl = PlIdle /\ sc = ScIdle /\ fan = FanIdle /\ stale = NoStale

Next ==
    \/ StartTest \/ HeaderClick \/ Restart \/ BgResolve \/ BgReject
    \/ FetchResolve \/ FetchReject \/ Retry
    \/ ScriptSettle \/ SynthSettle \/ DecodeSettle
    \/ SubmitAnswers \/ NextModule \/ SubmitForGrading \/ EvalSettle \/ FinishModule
    \/ EditDetails \/ handleFormSubmit \/ SubmitSettle

Spec == Init /\ [][Next]_vars

\* runWithRetry alone: one call with any retries in 1..MaxRetries
InitRw ==
    /\ InitApp
    /\ obs = ObsIdle
    /\ lt = LtIdle
    /\ \E r \in 1..MaxRetries, b \in BaseDelays : rw = RwEntered(r, b)
    /\ pl = PlIdle
    /\ sc = ScIdle
    /\ fan = FanIdle
    /\ stale = NoStale

NextRw == RwInvoke \/ RwResolve \/ RwReject \/ RwWake

SpecRw == InitRw /\ [][NextRw]_vars

\* one listening fetch alone: a script of 0..MaxParts parts whose synthesis calls
\* have just been issued
InitAudio ==
    /\ InitApp /\ rw = RwIdle /\ obs = ObsIdle
    /\ \E audio \in SeqsUpTo(AudioInputs, MaxParts), secs \in SilenceSecs,
          rate \in SampleRates :
            lt = LtSynthesizing(audio, secs, rate)
    /\ pl = PlIdle
    /\ sc = ScIdle
    /\ fan = FanIdle
    /\ stale = NoStale

NextAudio == SynthFulfil \/ SynthReject \/ Assemble \/ DecodeAudio

SpecAudio == InitAudio /\ [][NextAudio]_vars

\* one Listening stage instance alone, from its mount to after its unmount
InitPlay ==
    /\ InitApp /\ rw = RwIdle /\ obs = ObsIdle /\ lt = LtIdle
    /\ pl = PlMounted
    /\ sc = ScIdle
    /\ fan = FanIdle
    /\ stale = NoStale

NextPlay ==
    \/ PlFetchFail \/ PlPrepare \/ PlRetry \/ toggleAudio \/ PlResumed
    \/ PlReachEnd \/ PlEnded \/ PlTeardown

SpecPlay == InitPlay /\ [][NextPlay]_vars

\* the scores alone: one pass through the four stages and the details form, with
\* the Reading content the provider returned
InitScore ==
    /\ InitApp /\ rw = RwIdle /\ obs = ObsIdle /\ lt = LtIdle /\ pl = PlIdle
    /\ \E revision \in Revisions, questions \in Contents :
        sc = ScStage([ScIdle EXCEPT !.revision = revision], TEST_READING, questions)
    /\ fan = FanIdle
    /\ stale = NoStale

NextScore ==
    \/ ScSelect \/ ScSubmitAnswers \/ ScNextModule \/ ScSpeakingInput
    \/ ScEvaluateWriting \/ ScEvaluateSpeaking \/ ScFinishModule \/ ScFormSubmit

SpecScore == InitScore /\ [][NextScore]_vars

\* the remote calls of one listening fetch alone
InitFan ==
    /\ InitApp /\ rw = RwIdle /\ obs = ObsIdle /\ lt = LtIdle /\ pl = PlIdle
    /\ sc = ScIdle
    /\ fan = FanScripting
    /\ stale = NoStale

NextFan == FanInvoke \/ FanResolve \/ FanReject \/ FanWake

SpecFan == InitFan /\ [][NextFan]_vars

(***************************************************************************)
(* The details form alone: the stage after the fourth report, with names and  *)
(* phone numbers of every kind validatePhone tells apart                      *)
(***************************************************************************)
FormNames == { <<>>, <<" ", " ">>, <<"A","s","h","a">> }
FormPhones ==
    { <<>>,
      <<"9","8","7","6","5"," ","4","3","2","1","1">>,
      <<"9","8","7","6","5","4","3","2","1">>,
      <<"9","8","7","6","5","4","3","2","1","1","2">>,
      <<"0","9","8","7","6","5","4","3","2","1">>,
      <<"9","8","7","6","5","4","3","2","1","0">>,
      <<"1","2","3","4","5","6","7","8","9","0">>,
      <<"7","7","7","7","7","7","7","7","7","7">> }
FormLanguages == {"Malayalam", "Tamil", "Other"}
FormBoards == { [reading |-> 60, listening |-> 100, writing |-> 80, speaking |-> 40],
                ZeroScores }

FormEdit == editDetails(FormNames, FormPhones, FormLanguages)

InitForm ==
    /\ state = USER_DETAILS_FORM
    /\ scores \in FormBoards
    /\ userDetails = DefaultDetails
    /\ isSubmitting = FALSE
    /\ formError = Null
    /\ preloaded = EmptyCache
    /\ bg = NoStale
    /\ submitPending = FALSE
    /\ mod = NoModule
    /\ spent = {}
    /\ lastOp = Op("updateScore")
    /\ run = <<>>
    /\ rw = RwIdle /\ obs = ObsIdle /\ lt = LtIdle /\ pl = PlIdle
    /\ sc = ScIdle
    /\ fan = FanIdle
    /\ stale = NoStale

NextForm == FormEdit \/ handleFormSubmit \/ SubmitSettle \/ HeaderClick

SpecForm == InitForm /\ [][NextForm]_vars

(***************************************************************************)
(* Properties                                                              *)
(***************************************************************************)
Rank(st) ==
    CASE st = HOME -> 0
      [] st = TEST_READING -> 1
      [] st = TEST_LISTENING -> 2
      [] st = TEST_WRITING -> 3
      [] st = TEST_SPEAKING -> 4
      [] st = USER_DETAILS_FORM -> 5
      [] st = RESULTS -> 6

\* C1 as stated: the stage never moves to an earlier stage except from Results to
\* Home by restart; no other user action (header logo click included) moves back.
C1_OnlyRestartGoesBack ==
    [][Rank(state') < Rank(state) =>
          (state = RESULTS /\ state' = HOME /\ lastOp'.name = "restart")]_vars

\* C1 amended: every stage change moves forward in the order Home, Reading,
\* Listening, Writing, Speaking, DetailsForm, Results, or goes to Home; going to
\* Home is done by restart (from Results) or by the header logo click (any stage).
C1_ForwardOrHome ==
    [][state' # state =>
          \/ Rank(state') > Rank(state)
          \/ /\ state' = HOME
             /\ \/ lastOp'.name = "restart" /\ state = RESULTS
                \/ lastOp'.name = "headerClick"]_vars

\* a header click has taken the session from a later stage back to Home
C1_Witness ==
    lastOp.name = "headerClick" /\ state = HOME /\ scores["writing"] # 0

\* C2: after Start, the scores reported so far sit each in its own field and the
\* stage is the one after the last reporting module; four reports r, l, w, s end in
\* DetailsForm with ScoreBoard {reading: r, listening: l, writing: w, speaking: s}.
C2_ReportsFillBoard ==
    /\ state = TEST_READING => run = <<>>
    /\ state = TEST_LISTENING => Len(run) = 1 /\ scores["reading"] = run[1]
    /\ state = TEST_WRITING =>
          Len(run) = 2 /\ scores["reading"] = run[1] /\ scores["listening"] = run[2]
    /\ state = TEST_SPEAKING =>
          /\ Len(run) = 3
          /\ scores["reading"] = run[1] /\ scores["listening"] = run[2]
          /\ scores["writing"] = run[3]
    /\ state = USER_DETAILS_FORM =>
          /\ Len(run) = 4
          /\ scores = [reading |-> run[1], listening |-> run[2],
                       writing |-> run[3], speaking |-> run[4]]

\* four reports have ended in DetailsForm, with scores that tell the fields apart
C2_Witness ==
    /\ state = USER_DETAILS_FORM /\ Len(run) = 4
    /\ run[1] # run[2] /\ run[2] # run[3] /\ run[3] # run[4] /\ run[4] # run[1]

\* C3: right after restart the session is in Home, the ScoreBoard is {0,0,0,0},
\* the user details are the defaults and all four cache slots are empty.
C3_RestartClears ==
    lastOp.name = "restart" =>
        /\ state = HOME
        /\ scores = ZeroScores
        /\ userDetails = DefaultDetails
        /\ preloaded = EmptyCache

\* restart has just run, with background fetches of the old session still in flight
C3_Witness ==
    lastOp.name = "restart" /\ state = HOME /\ bg["reading"] = 1 /\ bg["speaking"] = 1

\* --- runWithRetry ---------------------------------------------------------
Keywords == {K503, KOverloaded, KUnavailable, KQuota, K429}

\* the text contains one of the five keywords, compared case-insensitively
HasKeyword(text) == \E kw \in Keywords : includes(toLowerCase(text), kw)

\* the text runWithRetry classifies: the message, or the JSON text when there is none
ClassifiedText(error) == IF error.message # <<>> THEN error.message ELSE error.json

RECURSIVE SumDelays(_, _)
\* sum of base * 2^i for i in 0..k-1
SumDelays(base, k) == IF k = 0 THEN 0 ELSE SumDelays(base, k - 1) + base * Pow2(k - 1)

Attempts == Len(obs.outcomes)
LastOutcome == obs.outcomes[Attempts]
FailedTransient(j) ==
    ~obs.outcomes[j].ok /\ HasKeyword(ClassifiedText(obs.outcomes[j].value))

\* C4: k transient failures (k < maxAttempts) followed by a success: the call
\* returns that success value after exactly k+1 invocations, having slept
\* sum(baseDelay * 2^i, i in 0..k-1) in total.
C4_BackoffSum ==
    (/\ Attempts >= 1 /\ LastOutcome.ok
     /\ \A j \in 1..(Attempts - 1) : FailedTransient(j))
    => /\ rw.pc = "returned"
       /\ rw.result = LastOutcome.value
       /\ obs.calls = Attempts
       /\ obs.sleeps = Attempts - 1
       /\ obs.slept = SumDelays(rw.baseDelay, Attempts - 1)

\* three transient failures, then success on the fourth attempt
C4_Witness ==
    /\ rw.pc = "returned" /\ Attempts = 4 /\ rw.baseDelay = DefaultBaseDelay
    /\ obs.slept = DefaultBaseDelay + 2 * DefaultBaseDelay + 4 * DefaultBaseDelay

\* C5: the operation is never invoked more than maxAttempts times, and when every
\* one of maxAttempts attempts failed with a transient error the call has failed
\* after exactly maxAttempts invocations and maxAttempts-1 delays (none after the
\* last failure).
C5_Exhaustion ==
    /\ obs.calls <= rw.retries
    /\ (Attempts = rw.retries /\ \A j \in 1..Attempts : FailedTransient(j))
       => /\ rw.pc = "thrown"
          /\ rw.thrown = LastOutcome.value
          /\ obs.calls = rw.retries
          /\ obs.sleeps = rw.retries - 1
          /\ obs.slept = SumDelays(rw.baseDelay, rw.retries - 1)

\* the default three attempts all failed with a transient error
C5_Witness ==
    /\ rw.retries = DefaultRetries /\ Attempts = DefaultRetries
    /\ \A j \in 1..Attempts : FailedTransient(j)
    /\ rw.pc = "thrown"

\* C6: a permanent failure on any attempt makes the call fail at once with that
\* same error: no delay is added for it and the operation is not invoked again.
C6_PermanentFailsAtOnce ==
    (/\ Attempts >= 1 /\ ~LastOutcome.ok
     /\ ~HasKeyword(ClassifiedText(LastOutcome.value)))
    => /\ rw.pc = "thrown"
       /\ rw.thrown = LastOutcome.value
       /\ obs.calls = Attempts
       /\ obs.sleeps = Attempts - 1
       /\ obs.slept = SumDelays(rw.baseDelay, Attempts - 1)

\* a permanent failure on attempt 1 of 3
C6_Witness ==
    /\ rw.retries = DefaultRetries /\ Attempts = 1 /\ obs.calls = 1 /\ obs.slept = 0
    /\ rw.pc = "thrown" /\ ~LastOutcome.ok
    /\ ~HasKeyword(ClassifiedText(LastOutcome.value))

\* a failure on an attempt that is not the last has just been handled
HandledEarlyFailure ==
    /\ rw.pc \in {"sleeping", "thrown"}
    /\ Attempts >= 1 /\ Attempts < rw.retries /\ ~LastOutcome.ok

\* C7 as stated: a failure is treated as transient (retried while attempts remain)
\* if and only if its error message contains one of the keywords, case-insensitively.
C7_ByMessage ==
    HandledEarlyFailure =>
        ((rw.pc = "sleeping") <=> HasKeyword(LastOutcome.value.message))

\* C7 amended: a failure is treated as transient if and only if the classified text
\* contains one of the keywords, case-insensitively, where the classified text is the
\* error's message or, when the error has no (or an empty) message, its JSON text.
C7_ByClassifiedText ==
    HandledEarlyFailure =>
        ((rw.pc = "sleeping") <=> HasKeyword(ClassifiedText(LastOutcome.value)))

\* a failure whose message matches only after lower-casing is being retried
C7_Witness ==
    /\ HandledEarlyFailure /\ rw.pc = "sleeping"
    /\ LastOutcome.value.message = <<"U","N","A","V","A","I","L","A","B","L","E">>

\* --- preloading ------------------------------------------------------------
\* the slot of the stage one ahead of st
SlotAhead(st) ==
    CASE st = HOME -> "reading"
      [] st = TEST_READING -> "listening"
      [] st = TEST_LISTENING -> "writing"
      [] st = TEST_WRITING -> "speaking"
      [] OTHER -> "none"

\* C8: on entering Home, Reading, Listening or Writing a background fetch for the
\* next stage's slot is started if that slot is empty, and none if it holds content.
C8_PrefetchOnEntry ==
    [][(state' # state /\ SlotAhead(state') # "none") =>
          bg'[SlotAhead(state')] =
              IF preloaded'[SlotAhead(state')] = Null
              THEN bg[SlotAhead(state')] + 1
              ELSE bg[SlotAhead(state')]]_vars

\* Listening was entered with the Writing slot already filled: no fetch in flight
C8_Witness ==
    /\ lastOp.name = "updateScore" /\ state = TEST_LISTENING
    /\ preloaded["writing"] # Null /\ bg["writing"] = 0

\* C9: at most one background fetch per cache slot is in flight at any time.
C9_SingleFlight == \A m \in Modules : bg[m] <= 1

\* C10: a cache slot is non-empty only if it is the slot of the stage one ahead of
\* the current stage.
C10_OnlyOneAhead == \A m \in Modules : preloaded[m] # Null => m = SlotAhead(state)

\* C11: a cache entry is taken into use by at most one stage instance: a stage
\* instance mounted with its slot filled is never handed content that an earlier
\* stage instance already took.
C11_ConsumedOnce ==
    [][\A m \in Modules :
          (state' # state /\ moduleOf(state') = m /\ preloaded'[m] # Null) =>
              m \notin spent]_vars

\* --- stage fetch -------------------------------------------------------------
\* the awaits of a foreground fetch: generate* for Reading/Writing/Speaking, the
\* script and the synthesis calls for Listening
RemoteFetch == {"fetch", "script", "synth"}

\* C12: a stage entered with its slot filled uses that content (or, for Listening,
\* fails on it) and issues no remote generation call; a stage entered with its slot
\* empty issues a foreground fetch, and while a foreground fetch has not settled the
\* stage shows its loading state.
C12_EntryUsesSlotOrFetches ==
    [][/\ (state' # state /\ moduleOf(state') \in Modules) =>
            IF preloaded'[moduleOf(state')] # Null
            THEN /\ mod'.pending \notin RemoteFetch
                 /\ mod'.content = "preloaded" \/ mod'.step = "error"
            ELSE mod'.pending \in RemoteFetch
       /\ mod'.pending \in RemoteFetch => screenOf(mod') = "loading"]_vars

\* the awaits of a stage's own fetch, remote or local
StageFetch == RemoteFetch \cup {"decodeAudioData"}

\* a step in which the mounted stage's fetch ended without content to show
FetchFailed ==
    /\ state' = state /\ mod'.kind = mod.kind
    /\ mod.pending \in StageFetch /\ mod'.pending = "none"
    /\ IF mod.kind = "listening" THEN mod'.step # "ready" ELSE mod'.content # "fetched"

\* a step in which the mounted stage's evaluation ended without a result
EvalFailed ==
    /\ state' = state /\ mod'.kind = mod.kind
    /\ mod.pending = "evaluate" /\ mod'.pending = "none" /\ mod'.result = <<>>

\* a step in which a background prefetch ended without filling its slot
PrefetchFailed ==
    /\ preloaded' = preloaded
    /\ \E m \in Modules : bg' = [bg EXCEPT ![m] = @ - 1]

\* C13: a failed stage fetch puts the stage into its error state, a failed
\* evaluation leaves the stage without a result, a failed prefetch changes nothing
\* else, and none of them changes the current stage or a score; the stage leaves a
\* test module with a report only from shown content and, for Writing and Speaking,
\* with the score of a successful evaluation.
C13_FailuresStay ==
    [][/\ FetchFailed => (screenOf(mod') = "error" /\ scores' = scores)
       /\ EvalFailed =>
            /\ mod' = [mod EXCEPT !.pending = "none", !.evaluating = FALSE]
            /\ scores' = scores
       /\ PrefetchFailed =>
            UNCHANGED <<state, scores, userDetails, isSubmitting, formError, mod>>
       /\ scores' # scores =>
            \/ lastOp'.name = "restart"
            \/ /\ lastOp'.name = "updateScore"
               /\ screenOf(mod) = "content" /\ mod.pending = "none"
               /\ mod.kind \in {"writing", "speaking"} =>
                     (mod.result # <<>> /\ scores'[mod.kind] = mod.result[1])
       /\ (state' # state /\ moduleOf(state) \in Modules) =>
            \/ lastOp'.name \in {"headerClick", "submitSettle"}
            \/ /\ lastOp'.name = "updateScore"
               /\ screenOf(mod) = "content" /\ mod.pending = "none"]_vars

\* the Writing fetch has failed after Reading and Listening were completed, and a
\* Speaking prefetch has failed too: still in Writing, scores as they were
C13_Witness ==
    /\ state = TEST_WRITING /\ screenOf(mod) = "error" /\ mod.content = Null
    /\ scores = [reading |-> 60, listening |-> 100, writing |-> 0, speaking |-> 0]
    /\ preloaded["speaking"] = Null /\ bg["speaking"] = 0

\* C14: in the error state of any stage, the manual retry starts the stage's fetch
\* anew with a remote generation call, whether or not the stage's slot is filled.
C14_RetryRefetches ==
    screenOf(mod) = "error" =>
        \A m \in retryOf(mod, preloaded[mod.kind]) :
            m.pending \in RemoteFetch /\ screenOf(m) = "loading"

\* --- audio assembly ----------------------------------------------------------
\* concatenateRawAudio has run on lt.segments and given lt.combined[1]
Assembled == lt.combined # <<>>

SilenceBytes == lt.secs * lt.rate * 2

RECURSIVE BytesBefore(_, _)
\* the sum of the byte lengths of segments 1..i-1
BytesBefore(segs, i) == IF i <= 1 THEN 0 ELSE BytesBefore(segs, i - 1) + Len(segs[i - 1])

\* where segment i starts in the output (bytes before it), with silence of s bytes
StartOf(segs, i, s) == BytesBefore(segs, i) + (i - 1) * s

\* the n bytes of out from byte offset `from` equal seg
RangeEquals(out, from, seg) ==
    \A k \in 1..Len(seg) : from + k <= Len(out) /\ out[from + k] = seg[k]

\* C15: the output has length sum(segment lengths) + (count-1)*s, with no silence
\* for 0 or 1 segment, and every byte of each silence span between two consecutive
\* segments is zero (s = silenceSeconds*sampleRate*2).
C15_LengthAndSilence ==
    Assembled =>
        LET out == lt.combined[1]
            n == Len(lt.segments)
        IN /\ Len(out) = BytesBefore(lt.segments, n + 1)
                            + (IF n <= 1 THEN 0 ELSE (n - 1) * SilenceBytes)
           /\ \A i \in 1..(n - 1) : \A k \in 1..SilenceBytes :
                 out[StartOf(lt.segments, i, SilenceBytes) + Len(lt.segments[i]) + k] = 0

\* three segments of 2, 4 and 1 bytes were assembled with 8 bytes of silence
C15_Witness ==
    /\ Assembled /\ SilenceBytes = 8
    /\ lt.segments = << <<0, 128>>, <<255, 127, 0, 0>>, <<1>> >>
    /\ Len(lt.combined[1]) = 23

\* C16 as stated: for three segments of a, b, c bytes and silence of s bytes the
\* ranges [0,a), [a+s, a+s+b) and [a+s+b+2s, ...) equal the three segments.
C16_PlacementAsStated ==
    (Assembled /\ Len(lt.segments) = 3) =>
        LET out == lt.combined[1]
            a == Len(lt.segments[1])
            b == Len(lt.segments[2])
            s == SilenceBytes
        IN /\ RangeEquals(out, 0, lt.segments[1])
           /\ RangeEquals(out, a + s, lt.segments[2])
           /\ RangeEquals(out, a + s + b + 2 * s, lt.segments[3])

\* C16 amended: for three segments of a, b, c bytes and silence of s bytes the
\* ranges [0,a), [a+s, a+s+b) and [a+b+2s, a+b+2s+c) equal the first, second and
\* third segment exactly.
C16_Placement ==
    (Assembled /\ Len(lt.segments) = 3) =>
        LET out == lt.combined[1]
            a == Len(lt.segments[1])
            b == Len(lt.segments[2])
            s == SilenceBytes
        IN /\ RangeEquals(out, 0, lt.segments[1])
           /\ RangeEquals(out, a + s, lt.segments[2])
           /\ RangeEquals(out, a + b + 2 * s, lt.segments[3])

\* three different non-empty segments were assembled
C16_Witness ==
    /\ Assembled /\ SilenceBytes = 4
    /\ lt.segments = << <<1>>, <<0, 128>>, <<255, 127, 0, 0>> >>

\* C17: no audio buffer is produced (the attempt fails) when the list of segments is
\* empty or some segment has a zero or odd byte length, also when odd lengths add
\* up to an even total.
C17_MalformedFails ==
    (lt.pc = "ready" \/ lt.buffer # <<>>) =>
        /\ Len(lt.segments) >= 1
        /\ \A i \in 1..Len(lt.segments) :
              Len(lt.segments[i]) > 0 /\ Len(lt.segments[i]) % 2 = 0

\* the signed 16-bit value of the little-endian byte pair (lo, hi)
Sample16(lo, hi) ==
    IF lo + 256 * hi >= 32768 THEN lo + 256 * hi - 65536 ELSE lo + 256 * hi

\* C18: every 16-bit signed sample v is decoded to v/32768: -32768 gives -1, 0 gives
\* 0, 32767 gives a value strictly between 0.999 and 1, and every decoded value lies
\* in [-1, 1).
C18_Normalization ==
    lt.buffer # <<>> =>
        LET data == lt.combined[1]
            channelData == lt.buffer[1]
        IN /\ Len(channelData) = Len(data) \div 2
           /\ \A k \in 1..Len(channelData) :
                 LET v == Sample16(data[2 * k - 1], data[2 * k])
                     d == channelData[k]
                 IN /\ d.den > 0
                    /\ d.num * 32768 = v * d.den
                    /\ v = -32768 => d.num = -d.den
                    /\ v = 0 => d.num = 0
                    /\ v = 32767 => (999 * d.den < 1000 * d.num /\ d.num < d.den)
                    /\ -d.den <= d.num /\ d.num < d.den

\* a buffer was decoded that holds the samples -32768, 32767 and 0
C18_Witness ==
    /\ lt.pc = "ready" /\ lt.buffer # <<>>
    /\ \E i, j, k \in 1..Len(lt.buffer[1]) :
          /\ lt.buffer[1][i].num = -32768
          /\ lt.buffer[1][j].num = 32767
          /\ lt.buffer[1][k].num = 0

\* C19: whatever the order in which the synthesis calls complete, segment i of the
\* assembled track is the audio synthesized for part i.
C19_PartOrder ==
    Assembled =>
        /\ Len(lt.segments) = Len(lt.audio)
        /\ \A i \in 1..Len(lt.audio) :
              /\ lt.segments[i] = decode(lt.audio[i])
              /\ RangeEquals(lt.combined[1], StartOf(lt.segments, i, SilenceBytes),
                             decode(lt.audio[i]))

\* three parts with different audio were assembled after their calls completed in
\* the order 3, 2, 1
C19_Witness ==
    /\ Assembled /\ lt.order = <<3, 2, 1>>
    /\ lt.audio = << <<"A","I","A","=">>, <<"/","3","8","A","A","A","=","=">>,
                     <<"A","Q","=","=">> >>

\* C20: when a synthesis call of a listening fetch has failed, the fetch is in its
\* error state and neither assembled bytes nor an audio buffer exist, whatever the
\* other calls return later; and in the error state (a synthesis, assembly or
\* decoding failure) no audio buffer exists.
C20_FanInFailure ==
    /\ (\E i \in 1..Len(lt.calls) : lt.calls[i] = "rejected") =>
          (lt.pc = "error" /\ lt.combined = <<>> /\ lt.buffer = <<>>)
    /\ lt.pc = "error" => lt.buffer = <<>>

\* of three parts the synthesis of part 2 has failed and the two others succeeded
C20_Witness ==
    /\ lt.calls = <<"fulfilled", "rejected", "fulfilled">> /\ lt.pc = "error"
    /\ atobValid(lt.audio[1]) /\ atobValid(lt.audio[3])
    /\ Len(decode(lt.audio[1])) = 2 /\ Len(decode(lt.audio[3])) = 4

\* C21 as stated: in a Listening stage instance at most one playback source is
\* playing at any time, whatever the interleaving of clicks, resume() and ended events
C21_OneActiveSource == Cardinality(Playing(pl)) <= 1

\* C22 as stated: once the instance is torn down, no audio context of it is left
\* open, also when the context is created after the teardown
C22_ClosedAfterTeardown ==
    (pl.loadingStep # "idle" /\ ~pl.mounted /\ ~pl.fetching)
        => pl.audioContext \in {"none", "closed"}

\* C23 as stated: the ended event of an earlier source never sets isPlaying to
\* false while a later source is still playing
C23_EndedOfEarlierSource ==
    [][(\E k \in 1..Len(pl.sources) :
            pl.sources[k] = "ending" /\ pl'.sources[k] = "done")
        /\ pl.isPlaying /\ ~pl'.isPlaying
       => Playing(pl') = {}]_vars

\* a number in [0,100]
InRange(x) == ~isNaN(x) /\ 0 <= x.num /\ x.num <= 100 * x.den

\* C24 as stated: in every reachable state each of the four ScoreBoard fields is a
\* number in [0,100], whatever content and evaluation score the provider returned
C24_BoardInRange == \A m \in Modules : InRange(sc.scores[m])

\* a is the integer nearest to x, a half rounded up
NearestTo(a, x) ==
    /\ ~isNaN(a) /\ ~isNaN(x) /\ a.den = 1
    /\ (2 * a.num - 1) * x.den <= 2 * x.num
    /\ 2 * x.num < (2 * a.num + 1) * x.den

MeanOf(s) == dividedBy(plus(plus(plus(s.reading, s.listening), s.writing), s.speaking), 4)

\* C25 as stated: the average sent in the record and shown at Results is
\* round((reading+listening+writing+speaking)/4) of the ScoreBoard and lies in [0,100]
C25_AverageRoundedInRange ==
    sc.record # <<>> =>
        /\ NearestTo(sc.record[1].averageScore, MeanOf(sc.scores))
        /\ InRange(sc.record[1].averageScore)
        /\ NearestTo(getAverageScore(sc.scores), MeanOf(sc.scores))
        /\ InRange(getAverageScore(sc.scores))

\* C27 as stated: every speaking evaluation request carries exactly one graded
\* artifact, the recorded audio or the typed text
C27_OneArtifact == sc.request # <<>> => Cardinality(sc.request[1]) = 1

\* C26 as stated: between two resets of the ScoreBoard each field is written at
\* most once: a module never reports a score into a field already written since the
\* last reset (every reported score is non-zero here, so a written field is non-zero)
C26_WrittenOncePerReset ==
    [][lastOp'.name = "updateScore" /\ state' # state
       => scores[lastOp'.module] = ZeroScores[lastOp'.module]]_vars

\* C28: result submission is fire-and-forget: when the one sink call of a submit
\* settles, fulfilled or rejected, the session enters Results, no form error is
\* shown, the submit is over and no further sink call is in flight
C28_FireAndForget ==
    [][lastOp'.name = "submitSettle"
       => /\ submitPending /\ ~submitPending'
          /\ state' = RESULTS
          /\ formError' = Null
          /\ ~isSubmitting']_vars

\* the sink call of a submit has failed and the session is in Results
C28_Witness ==
    /\ lastOp.name = "submitSettle" /\ lastOp.fetched = "rejected"
    /\ state = RESULTS /\ formError = Null /\ ~submitPending

\* C30 as stated: Results is entered only from DetailsForm: the state immediately
\* before Results is DetailsForm in every run
C30_ResultsFromForm ==
    [][state' = RESULTS /\ state # RESULTS => state = USER_DETAILS_FORM]_vars

\* C29: each remote call of a listening fetch has its own retry budget: no call is
\* invoked more than maxAttempts times; synthesis calls exist only once the script
\* call has succeeded, one per part; no call's attempt count ever goes down; and a
\* step that changes the attempt count of one call leaves every other call as it was
C29_IndependentBudgets ==
    [][/\ \A c \in 1..Len(fan'.calls) : fan'.calls[c].invocations <= DefaultRetries
       /\ Len(fan'.calls) > 1 => fan'.calls[1].pc = "returned"
       /\ fan'.calls[1].pc = "returned" => Len(fan'.calls) = 1 + fan'.parts
       /\ Len(fan'.calls) >= Len(fan.calls)
       /\ \A c \in 1..Len(fan.calls) :
            /\ fan'.calls[c].i >= fan.calls[c].i
            /\ fan'.calls[c].invocations >= fan.calls[c].invocations
            /\ (\/ fan'.calls[c].i # fan.calls[c].i
                \/ fan'.calls[c].invocations # fan.calls[c].invocations)
               => \A d \in 1..Len(fan.calls) : d # c => fan'.calls[d] = fan.calls[d]]_vars

\* the script call succeeded on its second attempt; of two parts, the synthesis of
\* part 1 failed after three attempts and that of part 2 succeeded on its first
C29_Witness ==
    /\ fan.parts = 2 /\ Len(fan.calls) = 3
    /\ fan.calls[1] = [pc |-> "returned", i |-> 1, invocations |-> 2]
    /\ fan.calls[2] = [pc |-> "thrown", i |-> 2, invocations |-> 3]
    /\ fan.calls[3] = [pc |-> "returned", i |-> 0, invocations |-> 1]

\* C31 as stated: a background prefetch started before a restart that resolves
\* after it never fills a slot of the new session: a step that fills an empty slot
\* does not settle a fetch started before the last restart
C31_NoStaleFill ==
    [][\A m \in Modules :
          (preloaded[m] = Null /\ preloaded'[m] # Null) => stale'[m] = stale[m]]_vars

\* C32 as stated: a mounted Reading, Writing or Speaking stage shows loading, error
\* or its content, and shows loading while its foreground fetch is in flight and it
\* has neither content nor error
C32_ShowsOneOfThree ==
    mod.kind \in Plain =>
        /\ screenOf(mod) \in {"loading", "error", "content"}
        /\ (mod.pending = "fetch" /\ mod.content = Null /\ ~mod.error)
              => screenOf(mod) = "loading"

\* C33 as stated: a stage in its error state is never stuck: the manual retry always
\* does something (it starts the fetch anew), so with a provider that answers the
\* stage gets to its content, also when its prefetch resolved after it was mounted
C33_RetryNeverStuck ==
    screenOf(mod) = "error" => retryOf(mod, preloaded[mod.kind]) # {mod}

\* C34: reporting a score for one module changes only that module's ScoreBoard
\* field and the current stage: the other three fields, the user details and all
\* PreloadCache slots are as before the report
C34_ReportFrame ==
    [][lastOp'.name = "updateScore" /\ state' # state
       => /\ scores'[lastOp'.module] = lastOp'.score
          /\ \A m \in Modules \ {lastOp'.module} : scores'[m] = scores[m]
          /\ userDetails' = userDetails
          /\ preloaded' = preloaded
          /\ state' = nextStateOf(lastOp'.module)]_vars

\* Reading has just reported in a second pass after a header click: the other
\* fields still hold the first pass's scores, details are typed in, slots are filled
C34_Witness ==
    /\ lastOp.name = "updateScore" /\ lastOp.module = "reading"
    /\ scores = [reading |-> 60, listening |-> 100, writing |-> 80, speaking |-> 40]
    /\ userDetails.name # <<>> /\ userDetails.phone # <<>>
    /\ preloaded["listening"] # Null /\ preloaded["speaking"] # Null

\* the questions of the mounted Reading / Listening content whose selected option
\* is the correct one
CorrectlyAnswered(s) ==
    {k \in 1..Len(s.questions) :
        \E p \in s.answers : p[1] = s.questions[k].id
                             /\ p[2] = s.questions[k].correctAnswerIndex}

\* x is the number 100 * correct / total, and 0 when total is 0
IsPercentage(x, correct, total) ==
    /\ ~isNaN(x)
    /\ IF total = 0 THEN x.num = 0
       ELSE x.num * total = 100 * correct * x.den

\* C35 as stated: the score a Reading or Listening stage reports is 100*correct/total
\* (0 when there is no question), and it reports only once every question has a
\* selected answer
C35_ReportIsPercentage ==
    [][(sc.state \in {TEST_READING, TEST_LISTENING} /\ sc'.state # sc.state)
       => /\ IsPercentage(sc'.scores[moduleOf(sc.state)],
                          Cardinality(CorrectlyAnswered(sc)), Len(sc.questions))
          /\ \A k \in 1..Len(sc.questions) : sc.questions[k].id \in keysOf(sc.answers)]_vars

\* C36: in a Reading or Listening stage, once the answers are submitted a select
\* action leaves the answers as they are and the stage stays submitted, so the
\* report is computed from the submitted answers
C36_SubmittedAnswersFrozen ==
    [][(sc.state \in {TEST_READING, TEST_LISTENING} /\ sc.submitted
        /\ sc'.state = sc.state)
       => (sc'.answers = sc.answers /\ sc'.submitted)]_vars

\* two questions were answered, one of them wrongly, and the answers are submitted:
\* a later selection could still change the score
C36_Witness ==
    /\ sc.state = TEST_LISTENING /\ sc.submitted /\ Len(sc.questions) = 2
    /\ Cardinality(sc.answers) = 2 /\ Cardinality(CorrectlyAnswered(sc)) = 1

\* the claim's own reading of a valid phone: exactly 10 digits, not starting with 0,
\* not on the block list, not one digit repeated
PhoneIsValid(phone) ==
    /\ Len(phone) = 10
    /\ \A k \in 1..Len(phone) : IsDigit(phone[k])
    /\ phone[1] # "0"
    /\ phone \notin BlockList
    /\ \E k \in 1..Len(phone) : phone[k] # phone[1]
DetailsAreValid(d) == ~IsBlank(d.name) /\ PhoneIsValid(d.phone)

\* C37: a details submit with a blank name or an invalid phone (not exactly 10
\* digits, starting with 0, on the block list, or one digit repeated) leaves the
\* session in DetailsForm with a form error and makes no call to the result sink; the
\* sink is called, and Results is reached, only with a non-blank name and a valid
\* phone.
C37_InvalidDetailsStay ==
    [][/\ (lastOp'.name = "formSubmit" /\ ~DetailsAreValid(userDetails))
            => /\ state' = USER_DETAILS_FORM
               /\ formError' # Null
               /\ ~submitPending'
               /\ ~isSubmitting'
       /\ (submitPending' /\ ~submitPending) => DetailsAreValid(userDetails')
       /\ (state' = RESULTS /\ state # RESULTS) => DetailsAreValid(userDetails')]_vars

C37_Witness ==
    /\ lastOp.name = "formSubmit" /\ state = USER_DETAILS_FORM
    /\ ~IsBlank(userDetails.name)
    /\ userDetails.phone = <<"9","8","7","6","5","4","3","2","1","0">>
    /\ formError = "Please enter a valid, real phone number."
    /\ ~submitPending

\* C38 as stated: in a Listening stage instance, whenever isPlaying is false no source
\* started by this instance is still playing, whatever the interleaving of play/stop
\* clicks, context resume and ended events
C38_FlagAgreesWithAudio == ~pl.isPlaying => Playing(pl) = {}

\* C39: whenever a Listening stage is in the ready state it holds its content and an
\* audio buffer assembled from that same content, with an audio context; and play
\* has never acted (no source started, no resume requested, isPlaying never set)
\* while the buffer or the context was missing.
C39_ReadyHoldsContentAndAudio ==
    /\ pl.loadingStep = "ready"
          => /\ pl.content \in PlContents
             /\ pl.audioBuffer = pl.content
             /\ pl.audioContext # "none"
    /\ (pl.sources # <<>> \/ pl.resuming > 0 \/ pl.isPlaying)
          => (pl.audioBuffer # 0 /\ pl.audioContext # "none")

\* ready after a failed first attempt and Try Again, with a source playing
C39_Witness ==
    /\ pl.mounted /\ pl.loadingStep = "ready"
    /\ pl.content = 2 /\ pl.audioBuffer = 2
    /\ pl.isPlaying /\ Playing(pl) # {}

====
